---- MODULE Spec2Model ----
(***************************************************************************)
(* Credit-risk scoring pipeline of ml/predict.py and the loan-application  *)
(* submission handler of backend/routes/loan_routes.py.                    *)
(*                                                                         *)
(* Numbers are fixed point.  Probabilities are integers in units of 1e-5   *)
(* (PUnit = 1.0).  Feature cells are integers; the fractional columns age, *)
(* estimated_emi, debt_to_income_ratio and loan_to_income_ratio are held   *)
(* in hundredths, every other column in its natural unit.  Attribution     *)
(* impacts are integers in units of 1e-6.                                  *)
(***************************************************************************)
EXTENDS Integers, Sequences, FiniteSets, TLC

VARIABLES
    MODEL_DATA,    \* predict.py module global: the cached artifact, or NoModel
    disk,          \* the artifact file at MODEL_PATH: present or not, and its content
    HAS_SHAP,      \* predict.py module global set at import
    shapLib,       \* how the installed attribution library behaves for this model
    store,         \* customer and employment tables
    applications,  \* application table: the committed Application rows
    call,          \* the last operation: its name, its input and how it ended
    features,      \* the feature frame the last call built
    aligned,       \* the aligned frame the last call gave to the classifier
    result,        \* what the last call returned
    explain,       \* which attribution paths the last call took
    batch,         \* the list of application dicts the last batch_predict got
    results,       \* the list the last batch_predict returned
    db,            \* database.Session: the thread's registered session, and the
                   \* Session objects of the request being served
    loading        \* the request threads inside load_model, and which object
                   \* the name MODEL_DATA is bound to

vars == <<MODEL_DATA, disk, HAS_SHAP, shapLib, store, applications, call,
          features, aligned, result, explain, batch, results, db, loading>>

-----------------------------------------------------------------------------
(* Units and small helpers *)

PUnit == 10^5          \* 1.0 as a probability
Centi == 10^2          \* 1.0 in a fractional feature column
Micro == 10^6          \* 1.0 as an impact

Abs(x) == IF x < 0 THEN -x ELSE x
Max(a, b) == IF a >= b THEN a ELSE b
Min(a, b) == IF a <= b THEN a ELSE b

\* a / b rounded down, for any sign of a and b (b # 0)
FloorDiv(a, b) == IF b > 0 THEN a \div b ELSE (-a) \div (-b)

\* round(x / unit) to the nearest integer, ties to the even one (Python's round)
RoundHalfEven(x, unit) ==
    LET q == x \div unit
        r == x % unit
    IN  IF 2 * r < unit THEN q
        ELSE IF 2 * r > unit THEN q + 1
        ELSE IF q % 2 = 0 THEN q ELSE q + 1

RECURSIVE SeqSum(_)
SeqSum(s) == IF s = <<>> THEN 0 ELSE s[1] + SeqSum(Tail(s))

Range(s) == {s[i] : i \in 1..Len(s)}

\* F(v), with v evaluated once before F uses it
With(v, F(_)) == CHOOSE r \in {F(x) : x \in {v}} : TRUE

\* the sequence <<F(1), ..., F(n)>>, as a tuple of evaluated elements
RECURSIVE Build(_, _)
Build(F(_), n) == IF n = 0 THEN <<>> ELSE Append(Build(F, n - 1), F(n))

\* index of the first occurrence of x in s, 0 when absent (list.index)
IndexOf(s, x) ==
    LET at == {i \in 1..Len(s) : s[i] = x}
    IN  IF at = {} THEN 0 ELSE CHOOSE i \in at : \A j \in at : i <= j

-----------------------------------------------------------------------------
(* A one-row DataFrame: column names, the row's cells, and the columns     *)
(* whose cell is not convertible to float.                                 *)

Frame(cols, vals) == [columns |-> cols, values |-> vals, nonnumeric |-> {}]
EmptyFrame == Frame(<<>>, <<>>)

HasColumn(df, c) == c \in Range(df.columns)
Cell(df, c) == df.values[IndexOf(df.columns, c)]

-----------------------------------------------------------------------------
(* Customer store (backend.models Customer / Employment rows).             *)
(* age_days is today - date_of_birth in days; years_of_experience is held  *)
(* in tenths of a year.                                                    *)

CustomerIds == 1..5

Customers ==
    (1 :> [age_days |-> 10958, gender |-> "Male",   state |-> "Maharashtra"]) @@
    (2 :> [age_days |-> 9131,  gender |-> "Female", state |-> "Kerala"]) @@
    (3 :> [age_days |-> 21915, gender |-> "Male",   state |-> "Punjab"]) @@
    (4 :> [age_days |-> 14000, gender |-> "Female", state |-> "Gujarat"])

Employments ==
    (1 :> [employment_type |-> "Salaried",      monthly_income |-> 50000,
           years_of_experience |-> 50]) @@
    (2 :> [employment_type |-> "Self-Employed", monthly_income |-> 20000,
           years_of_experience |-> 10]) @@
    (3 :> [employment_type |-> "Business",      monthly_income |-> 0,
           years_of_experience |-> 120])

InitialStore == [customers |-> Customers, employments |-> Employments]

-----------------------------------------------------------------------------
(* Loan requests *)

Purposes == {"Home Purchase", "Vehicle Purchase", "Business Expansion", "Education",
             "Medical Emergency", "Debt Consolidation", "Home Renovation",
             "Wedding Expenses"}

Request(cid, amount, tenure, rate, purpose) ==
    [customer_id |-> cid, loan_amount |-> amount, loan_tenure_months |-> tenure,
     interest_rate |-> rate, loan_purpose |-> purpose]

\* the terms a caller may send: valid ones, and ones breaking each rule of LoanRequest
LoanTerms ==
    { <<1000000, 10, 10, "Home Purchase">>,
      <<1000000, 50, 10, "Home Purchase">>,
      <<2000000, 50, 10, "Education">>,
      <<2000000, 10, 10, "Wedding Expenses">>,
      <<0,       50, 10, "Home Purchase">>,
      <<-1000000, 50, 10, "Home Purchase">>,
      <<1000000, 0,  10, "Home Purchase">>,
      <<1000000, -10, 10, "Home Purchase">>,
      <<1000000, 50, -1, "Home Purchase">>,
      <<1000000, 50, 10, "Gambling">> }

Requests == { Request(c, t[1], t[2], t[3], t[4]) : c \in CustomerIds, t \in LoanTerms }

NoRequest == Request(0, 0, 0, 0, "")

-----------------------------------------------------------------------------
(* prepare_features_for_prediction *)

BuilderColumns ==
    << "age", "gender_encoded", "age_group_encoded", "monthly_income",
       "years_of_experience", "experience_encoded", "loan_amount",
       "loan_tenure_months", "interest_rate", "debt_to_income_ratio",
       "loan_to_income_ratio", "estimated_emi",
       "employment_Self-Employed", "employment_Salaried",
       "purpose_Business Expansion", "purpose_Debt Consolidation",
       "purpose_Education", "purpose_Home Purchase", "purpose_Home Renovation",
       "purpose_Medical Emergency", "purpose_Vehicle Purchase",
       "purpose_Wedding Expenses",
       "state_Gujarat", "state_Maharashtra", "state_Other", "state_Punjab",
       "state_Telangana" >>

\* a / b > k, for integers with b # 0, without dividing
RatioAbove(a, b, k) == IF b > 0 THEN a > k * b ELSE a < k * b

\* a / b in units of 1/unit, rounded down (b # 0); long division keeps the
\* intermediate products small
FixedDiv(a, b, unit) ==
    LET q == FloorDiv(a, b)
        r == a - q * b
    IN  q * unit + FloorDiv(r * unit, b)

\* age = days / 365.25, in hundredths of a year
AgeCenti(days) == FixedDiv(days * 4, 1461, Centi)

\* age <= y, for age = days / 365.25
AgeAtMost(days, y) == days * 4 <= y * 1461

AgeGroup(days) ==
    IF AgeAtMost(days, 25) THEN 0
    ELSE IF AgeAtMost(days, 35) THEN 1
    ELSE IF AgeAtMost(days, 45) THEN 2
    ELSE IF AgeAtMost(days, 55) THEN 3
    ELSE 4

\* the band bounds belong to the upper band
ExperienceGroupStrict(tenths) ==
    IF tenths < 20 THEN 0
    ELSE IF tenths < 50 THEN 1
    ELSE IF tenths < 100 THEN 2
    ELSE 3

ExperienceGroup(tenths) ==
    IF tenths <= 20 THEN 0
    ELSE IF tenths <= 50 THEN 1
    ELSE IF tenths <= 100 THEN 2
    ELSE 3

Flag(b) == IF b THEN 1 ELSE 0

\* estimated_emi = loan_amount / loan_tenure_months, hundredths
EstimatedEmi(amount, tenure) == FixedDiv(amount, tenure, Centi)

\* the ratio as a fraction, without the * 100
DebtToIncomeFraction(amount, tenure, income) == FixedDiv(amount, tenure * income, Centi)

\* debt_to_income_ratio = (estimated_emi / monthly_income) * 100, hundredths
DebtToIncome(amount, tenure, income) == FixedDiv(amount * 100, tenure * income, Centi)

\* loan_to_income_ratio = loan_amount / monthly_income, hundredths
LoanToIncome(amount, income) == FixedDiv(amount, income, Centi)

\* high_risk_flag of lines 81-85
HighRiskFlag(amount, tenure, income) ==
    Flag(RatioAbove(amount * 100, tenure * income, 50)
         \/ RatioAbove(amount, income, 36)
         \/ income < 30000)

OkOutcome == "ok"
CustomerNotFound == "ValueError: Customer not found"
EmploymentNotFound == "ValueError: Employment data not found"
DivisionByZero == "ZeroDivisionError: division by zero"

\* the feature dictionary of lines 105-134, as a frame in the dictionary's order
\* the states with a column of their own
FixedStates == {"Gujarat", "Maharashtra", "Punjab", "Telangana"}

\* the catch-all with Telangana left out of its list
StateOtherThree(state) == Flag(state \notin {"Gujarat", "Maharashtra", "Punjab"})

\* state_Other of line 131
StateOther(state) == Flag(state \notin FixedStates)

FeatureRow(customer, employment, req) ==
    LET amount == req.loan_amount
        tenure == req.loan_tenure_months
        income == employment.monthly_income
        purpose == req.loan_purpose
        high_risk_flag == HighRiskFlag(amount, tenure, income)  \* computed, not stored
    IN  Frame(BuilderColumns,
          << AgeCenti(customer.age_days),
             Flag(customer.gender = "Male"),
             AgeGroup(customer.age_days),
             income,
             employment.years_of_experience,
             ExperienceGroup(employment.years_of_experience),
             amount,
             tenure,
             req.interest_rate,
             DebtToIncome(amount, tenure, income),
             LoanToIncome(amount, income),
             EstimatedEmi(amount, tenure),
             Flag(employment.employment_type = "Self-Employed"),
             Flag(employment.employment_type = "Salaried"),
             Flag(purpose = "Business Expansion"),
             Flag(purpose = "Debt Consolidation"),
             Flag(purpose = "Education"),
             Flag(purpose = "Home Purchase"),
             Flag(purpose = "Home Renovation"),
             Flag(purpose = "Medical Emergency"),
             Flag(purpose = "Vehicle Purchase"),
             Flag(purpose = "Wedding Expenses"),
             Flag(customer.state = "Gujarat"),
             Flag(customer.state = "Maharashtra"),
             StateOther(customer.state),
             Flag(customer.state = "Punjab"),
             Flag(customer.state = "Telangana") >>)

\* the two lookups in the other order
prepare_features_employment_first(st, req) ==
    LET cid == req.customer_id IN
    IF cid \notin DOMAIN st.employments
      THEN [outcome |-> EmploymentNotFound, frame |-> EmptyFrame]
    ELSE IF cid \notin DOMAIN st.customers
      THEN [outcome |-> CustomerNotFound, frame |-> EmptyFrame]
    ELSE IF req.loan_tenure_months = 0
      THEN [outcome |-> DivisionByZero, frame |-> EmptyFrame]
    ELSE IF st.employments[cid].monthly_income = 0
      THEN [outcome |-> DivisionByZero, frame |-> EmptyFrame]
    ELSE [outcome |-> OkOutcome,
          frame |-> FeatureRow(st.customers[cid], st.employments[cid], req)]

\* [outcome, frame]: the frame returned, or the exception raised
prepare_features_for_prediction(st, req) ==
    LET cid == req.customer_id IN
    IF cid \notin DOMAIN st.customers
      THEN [outcome |-> CustomerNotFound, frame |-> EmptyFrame]
    ELSE IF cid \notin DOMAIN st.employments
      THEN [outcome |-> EmploymentNotFound, frame |-> EmptyFrame]
    ELSE IF req.loan_tenure_months = 0
      THEN [outcome |-> DivisionByZero, frame |-> EmptyFrame]
    ELSE IF st.employments[cid].monthly_income = 0
      THEN [outcome |-> DivisionByZero, frame |-> EmptyFrame]
    ELSE [outcome |-> OkOutcome,
          frame |-> FeatureRow(st.customers[cid], st.employments[cid], req)]

-----------------------------------------------------------------------------
(* align_features_with_model *)

\* cells taken by position instead of by name
align_by_position(feature_df, model_feature_names) ==
    Frame(model_feature_names,
          Build(LAMBDA i : IF i <= Len(feature_df.values) THEN feature_df.values[i] ELSE 0,
                Len(model_feature_names)))

\* only the model's columns the builder has: nothing is zero-filled
align_intersection(feature_df, model_feature_names) ==
    With(SelectSeq(model_feature_names, LAMBDA c : HasColumn(feature_df, c)), LAMBDA kept :
         Frame(kept, Build(LAMBDA i : Cell(feature_df, kept[i]), Len(kept))))

align_features_with_model(feature_df, model_feature_names) ==
    Frame(model_feature_names,
          Build(LAMBDA i : IF HasColumn(feature_df, model_feature_names[i])
                           THEN Cell(feature_df, model_feature_names[i])
                           ELSE 0,
                Len(model_feature_names)))

-----------------------------------------------------------------------------
(* The classifier artifact (credit_model.pkl) and load_model *)

\* feature lists an artifact may declare: the training schema with
\* high_risk_flag, the builder's own order, a schema sharing no column with the
\* builder, and a short reordered one with columns the builder does not produce
TrainingColumns ==
    SubSeq(BuilderColumns, 1, 12) \o <<"high_risk_flag">>
        \o SubSeq(BuilderColumns, 13, Len(BuilderColumns))

LegacyColumns == << "credit_history_length", "state_Karnataka" >>

ShortColumns == << "monthly_income", "high_risk_flag", "loan_to_income_ratio",
                   "existing_loans", "debt_to_income_ratio" >>

ModelFeatureLists == {TrainingColumns, BuilderColumns, LegacyColumns, ShortColumns}

\* probabilities the classifier can produce: the ends, the two thresholds and
\* their neighbours
ProbSeq == << 0, 29996, 30000, 30001, 49996, 50000, 75000, 100000 >>

ProbValues == Range(ProbSeq)

\* a trained classifier is a fixed function of the aligned row; seed picks which
Seeds == 0..(Len(ProbSeq) - 1)

NoModel == [loaded |-> FALSE, feature_names |-> <<>>, seed |-> 0]

Artifacts == [loaded : {TRUE}, feature_names : ModelFeatureLists, seed : Seeds]

MissingFile == [present |-> FALSE, content |-> NoModel]

Disks == {MissingFile} \cup {[present |-> TRUE, content |-> a] : a \in Artifacts}

FileNotFound == "FileNotFoundError"

\* [outcome, model_data]: the value returned and the global after the call
\* joblib.load on every call, whatever is cached
load_model_reload(model_data, dsk) ==
    IF dsk.present
    THEN [outcome |-> OkOutcome, model_data |-> dsk.content, read |-> TRUE]
    ELSE [outcome |-> FileNotFound, model_data |-> model_data, read |-> TRUE]

\* [outcome, model_data, read]: what is returned or raised, the global after
\* the call, and whether joblib.load was called
load_model(model_data, dsk) ==
    IF ~model_data.loaded
    THEN IF dsk.present
         THEN [outcome |-> OkOutcome, model_data |-> dsk.content, read |-> TRUE]
         ELSE [outcome |-> FileNotFound, model_data |-> model_data, read |-> TRUE]
    ELSE [outcome |-> OkOutcome, model_data |-> model_data, read |-> FALSE]

\* request threads of the server (backend/app.py serves each request on a
\* thread of its own)
Threads == {1, 2, 3}

\* the global is bound to no object (None)
NoObject == 0

\* where each thread is in load_model, the object its last call returned, the
\* object the name MODEL_DATA is bound to, and how many objects joblib.load has
\* made from the file
NoLoading == [pc |-> [t \in Threads |-> "idle"],
              got |-> [t \in Threads |-> NoObject],
              cached |-> NoObject,
              made |-> 0]

\* line 41 seen from outside the call: when the global goes from None to an
\* artifact, joblib.load made one more object and the global is bound to it
Rebound(l, before, after) ==
    IF ~before.loaded /\ after.loaded
    THEN [l EXCEPT !.made = @ + 1, !.cached = l.made + 1]
    ELSE l

\* a number that depends on every cell and its position
Checksum(df) == SeqSum(Build(LAMBDA i : i * (df.values[i] % 13), Len(df.values)))

\* model.predict_proba(aligned)[0][1]: a function of the row, fixed by the artifact
PredictProba(model, df) ==
    ProbSeq[((Checksum(df) + model.seed) % Len(ProbSeq)) + 1]

-----------------------------------------------------------------------------
(* Score, tier and confidence of predict_credit_risk *)

\* a slope of 500 instead of 550
ClampedScoreSlope500(p) == Max(300 * PUnit, Min(850 * PUnit, 850 * PUnit - p * 500))

\* max(300, min(850, 850 - p * 550)), in units of 1e-5
ClampedScore(p) == Max(300 * PUnit, Min(850 * PUnit, 850 * PUnit - p * 550))

\* round(credit_score, 2), hundredths
CreditScore(p) == RoundHalfEven(ClampedScore(p), PUnit \div Centi)

\* <= instead of <: a boundary probability falls in the lower tier
RiskLevelInclusive(p) ==
    IF 10 * p <= 3 * PUnit THEN "Low"
    ELSE IF 10 * p <= 5 * PUnit THEN "Medium"
    ELSE "High"

RiskLevel(p) ==
    IF 10 * p < 3 * PUnit THEN "Low"
    ELSE IF 10 * p < 5 * PUnit THEN "Medium"
    ELSE "High"

Recommendation(p) ==
    IF 10 * p < 3 * PUnit THEN "Approve"
    ELSE IF 10 * p < 5 * PUnit THEN "Manual Review Required"
    ELSE "Reject or Require Collateral"

\* round(risk_probability, 4), units of 1e-4
RoundedProbability(p) == RoundHalfEven(p, 10)

\* round(max(p, 1 - p), 4), units of 1e-4
\* the rounded probability itself as the confidence
ModelConfidenceOfP(p) == RoundHalfEven(p, 10)

ModelConfidence(p) == RoundHalfEven(Max(p, PUnit - p), 10)

-----------------------------------------------------------------------------
(* get_shap_explanation *)

ShapBehaviours == {"raises", "list", "array", "array3d", "nan"}

\* float('nan') as an impact: no integer the arithmetic of the model produces
NaN == 0 - 2^30

IsNaN(x) == x = NaN

\* the attribution of feature i to class cls; the two classes of a binary
\* classifier get opposite values
ShapValue(model, df, i, cls) ==
    LET v == (((df.values[i] + 7 * model.seed + 13 * i) % 9) - 4) * 700
    IN  IF cls = 1 THEN v ELSE -v

ClassRow(model, df, cls) == Build(LAMBDA i : ShapValue(model, df, i, cls), Len(df.columns))

\* lines 163-188: [ok, values]; ok is FALSE when risk_contributors ends as None
PrimaryAttribution(lib, model, df) ==
    IF df.nonnumeric # {} \/ lib = "raises"
      THEN [ok |-> FALSE, values |-> <<>>]
    ELSE IF lib = "list"                      \* shap_values[1][0]
      THEN [ok |-> TRUE, values |-> ClassRow(model, df, 1)]
    ELSE IF lib = "array"                     \* shap_values[0], shape (n,)
      THEN [ok |-> TRUE, values |-> ClassRow(model, df, 1)]
    ELSE IF lib = "nan"                       \* shap_values[1][0] with one NaN in it
      THEN [ok |-> TRUE,
            values |-> Build(LAMBDA i : IF i = 1 + (model.seed % Len(df.columns))
                                          THEN NaN ELSE ShapValue(model, df, i, 1),
                             Len(df.columns))]
    ELSE                                      \* shap_values[0], shape (n, 2), flattened
      [ok |-> TRUE,
       values |-> Build(LAMBDA k : ShapValue(model, df, (k + 1) \div 2, (k + 1) % 2),
                        2 * Len(df.columns))]

FallbackColumns == {"debt_to_income_ratio", "loan_to_income_ratio", "monthly_income"}

\* input_df.get(c, pd.Series([0])).values[0]
GetOrZero(df, c) == IF HasColumn(df, c) THEN Cell(df, c) ELSE 0

\* the heuristic with an impact for existing_loans as well
FallbackAttributionWithLoans(df) ==
    IF FallbackColumns \cap df.nonnumeric # {}
      THEN [ok |-> FALSE, values |-> <<>>]
    ELSE
      [ok |-> TRUE,
       values |-> Build(LAMBDA i :
           IF df.columns[i] = "debt_to_income_ratio"
             THEN (df.values[i] - 40 * Centi) * 150
           ELSE IF df.columns[i] = "loan_to_income_ratio"
             THEN (df.values[i] - 30 * Centi) * 100
           ELSE IF df.columns[i] = "monthly_income"
             THEN (50000 - df.values[i]) * 10
           ELSE IF df.columns[i] = "existing_loans"
             THEN (df.values[i] + 1) * 5000
           ELSE 0,
           Len(df.columns))]

\* lines 191-213: [ok, values]; ok is FALSE when the except branch returns []
FallbackAttribution(df) ==
    IF FallbackColumns \cap df.nonnumeric # {}
      THEN [ok |-> FALSE, values |-> <<>>]
    ELSE
      LET dti == GetOrZero(df, "debt_to_income_ratio")
          lti == GetOrZero(df, "loan_to_income_ratio")
          income == GetOrZero(df, "monthly_income")
      IN  [ok |-> TRUE,
           values |-> Build(LAMBDA i :
               IF i = IndexOf(df.columns, "debt_to_income_ratio")
                 THEN (dti - 40 * Centi) * 150
               ELSE IF i = IndexOf(df.columns, "loan_to_income_ratio")
                 THEN (lti - 30 * Centi) * 100
               ELSE IF i = IndexOf(df.columns, "monthly_income")
                 THEN (50000 - income) * 10
               ELSE 0,
               Len(df.columns))]

\* zip(feature_names, risk_contributors)
Zip(names, values) ==
    Build(LAMBDA i : [feature |-> names[i], impact |-> values[i]],
          Min(Len(names), Len(values)))

\* with every key a number, sorted(..., key=abs(impact), reverse=True) is the
\* stable descending order: an entry comes after every entry of larger |impact|
\* and after the earlier entries of equal |impact|
RankByAbs(s, i) ==
    1 + Cardinality({j \in 1..Len(s) :
            \/ Abs(s[j].impact) > Abs(s[i].impact)
            \/ (j < i /\ Abs(s[j].impact) = Abs(s[i].impact))})

StableDescending(s) ==
    With(Build(LAMBDA i : RankByAbs(s, i), Len(s)), LAMBDA rank :
         Build(LAMBDA k : s[IndexOf(rank, k)], Len(s)))

\* abs(a[1]) < abs(b[1]) on floats: every comparison with NaN is False
KeyLess(a, b) == /\ ~IsNaN(a.impact)
                 /\ ~IsNaN(b.impact)
                 /\ Abs(a.impact) < Abs(b.impact)

Reverse(s) == Build(LAMBDA i : s[Len(s) + 1 - i], Len(s))

\* list.sort's count_run: the end of the run that starts at s[1]
RECURSIVE RunEnd(_, _, _)
RunEnd(s, r, descending) ==
    IF r < Len(s) /\ (KeyLess(s[r + 1], s[r]) <=> descending)
      THEN RunEnd(s, r + 1, descending)
      ELSE r

\* list.sort's binary insertion: where pivot goes in the sorted prefix s[l+1..r]
RECURSIVE InsertionPoint(_, _, _, _)
InsertionPoint(s, pivot, l, r) ==
    IF l >= r THEN l
    ELSE With(l + ((r - l) \div 2), LAMBDA p :
              IF KeyLess(pivot, s[p + 1])
                THEN InsertionPoint(s, pivot, l, p)
                ELSE InsertionPoint(s, pivot, p + 1, r))

RECURSIVE BinarySort(_, _)
BinarySort(s, start) ==
    IF start > Len(s) THEN s
    ELSE With(InsertionPoint(s, s[start], 0, start - 1), LAMBDA l :
              BinarySort(SubSeq(s, 1, l) \o <<s[start]>> \o SubSeq(s, l + 1, start - 1)
                            \o SubSeq(s, start + 1, Len(s)),
                         start + 1))

\* list.sort(reverse=True) on fewer than 64 entries: reverse, take the first
\* run (reversed if strictly descending), insert the rest, reverse
ListSortReverse(s) ==
    IF Len(s) < 2 THEN s
    ELSE With(Reverse(s), LAMBDA rv :
         With(KeyLess(rv[2], rv[1]), LAMBDA descending :
         With(RunEnd(rv, 2, descending), LAMBDA r :
         With(IF descending THEN Reverse(SubSeq(rv, 1, r)) \o SubSeq(rv, r + 1, Len(rv))
                            ELSE rv, LAMBDA run :
              Reverse(BinarySort(run, r + 1))))))

\* sorted(contributions, key=lambda x: abs(x[1]), reverse=True)
SortedByAbs(s) ==
    IF \E i \in 1..Len(s) : IsNaN(s[i].impact)
      THEN ListSortReverse(s)
      ELSE StableDescending(s)

\* abs(v) > 0.001
AboveEpsilon(e) == ~IsNaN(e.impact) /\ Abs(e.impact) > Micro \div 1000

\* lines 217-226: the first five by |impact|, without those at or below epsilon
FormatContributors(names, values) ==
    With(Zip(names, values), LAMBDA contributions :
    With(SortedByAbs(contributions), LAMBDA srt :
         SelectSeq(SubSeq(srt, 1, Min(5, Len(srt))), AboveEpsilon)))

NoExplain == [primary |-> "none", fallback |-> "none"]

AttributionError == "Exception in get_shap_explanation"

\* the primary path without its try/except: a failure of the library escapes
get_shap_explanation_uncaught(has_shap, lib, model, input_df) ==
    With(IF has_shap THEN PrimaryAttribution(lib, model, input_df)
         ELSE [ok |-> FALSE, values |-> <<>>], LAMBDA prim :
    With(FallbackAttribution(input_df), LAMBDA fb :
        IF has_shap /\ ~prim.ok
          THEN [outcome |-> AttributionError, contributors |-> <<>>,
                primary |-> "raised", fallback |-> "none"]
        ELSE IF prim.ok
          THEN [outcome |-> OkOutcome,
                contributors |-> FormatContributors(input_df.columns, prim.values),
                primary |-> "ok", fallback |-> "unused"]
        ELSE IF fb.ok
          THEN [outcome |-> OkOutcome,
                contributors |-> FormatContributors(input_df.columns, fb.values),
                primary |-> "absent", fallback |-> "ok"]
        ELSE [outcome |-> OkOutcome, contributors |-> <<>>,
              primary |-> "absent", fallback |-> "failed"]))

\* risk_contributors starts as [] instead of None: without the library the
\* heuristic is skipped
get_shap_explanation_no_fallback(has_shap, lib, model, input_df) ==
    With(IF has_shap THEN PrimaryAttribution(lib, model, input_df)
         ELSE [ok |-> TRUE, values |-> <<>>], LAMBDA prim :
    With(FallbackAttribution(input_df), LAMBDA fb :
    With(IF ~has_shap THEN "absent" ELSE IF prim.ok THEN "ok" ELSE "raised", LAMBDA primary :
        IF prim.ok
          THEN [outcome |-> OkOutcome,
                contributors |-> FormatContributors(input_df.columns, prim.values),
                primary |-> primary, fallback |-> "unused"]
        ELSE IF fb.ok
          THEN [outcome |-> OkOutcome,
                contributors |-> FormatContributors(input_df.columns, fb.values),
                primary |-> primary, fallback |-> "ok"]
        ELSE [outcome |-> OkOutcome, contributors |-> <<>>,
              primary |-> primary, fallback |-> "failed"])))

\* [outcome, contributors, primary, fallback]: the list returned (every path
\* that can raise is inside a try/except Exception) and the paths taken
get_shap_explanation(has_shap, lib, model, input_df) ==
    With(IF has_shap THEN PrimaryAttribution(lib, model, input_df)
         ELSE [ok |-> FALSE, values |-> <<>>], LAMBDA prim :
    With(FallbackAttribution(input_df), LAMBDA fb :
    With(IF ~has_shap THEN "absent" ELSE IF prim.ok THEN "ok" ELSE "raised", LAMBDA primary :
        IF prim.ok
          THEN [outcome |-> OkOutcome,
                contributors |-> FormatContributors(input_df.columns, prim.values),
                primary |-> primary, fallback |-> "unused"]
        ELSE IF fb.ok
          THEN [outcome |-> OkOutcome,
                contributors |-> FormatContributors(input_df.columns, fb.values),
                primary |-> primary, fallback |-> "ok"]
        ELSE [outcome |-> OkOutcome, contributors |-> <<>>,
              primary |-> primary, fallback |-> "failed"])))

-----------------------------------------------------------------------------
(* predict_credit_risk *)

NoResult ==
    [credit_score |-> 0, risk_probability |-> 0, risk_level |-> "", recommendation |-> "",
     model_confidence |-> 0, contributors |-> <<>>,
     factors |-> [debt_to_income_ratio |-> 0, loan_to_income_ratio |-> 0,
                  monthly_income |-> 0]]

NoProbability == 0 - 1

Raised(outcome, model_data) ==
    [outcome |-> outcome, model_data |-> model_data, features |-> EmptyFrame,
     aligned |-> EmptyFrame, p |-> NoProbability, result |-> NoResult,
     explain |-> NoExplain]

\* lines 251-285, from the aligned frame on
ScoreAligned(has_shap, lib, model, feature_df, aligned_features) ==
    With(PredictProba(model, aligned_features), LAMBDA risk_probability :
    With(get_shap_explanation(has_shap, lib, model, aligned_features), LAMBDA ex :
      IF ex.outcome # OkOutcome THEN Raised(ex.outcome, model)   \* line 270 is unguarded
      ELSE
        [outcome |-> OkOutcome,
         model_data |-> model,
         features |-> feature_df,
         aligned |-> aligned_features,
         p |-> risk_probability,
         result |->
           [credit_score |-> CreditScore(risk_probability),
            risk_probability |-> RoundedProbability(risk_probability),
            risk_level |-> RiskLevel(risk_probability),
            recommendation |-> Recommendation(risk_probability),
            model_confidence |-> ModelConfidence(risk_probability),
            contributors |-> ex.contributors,
            factors |->
              [debt_to_income_ratio |-> GetOrZero(aligned_features, "debt_to_income_ratio"),
               loan_to_income_ratio |-> GetOrZero(aligned_features, "loan_to_income_ratio"),
               monthly_income |-> GetOrZero(aligned_features, "monthly_income")]],
         explain |-> [primary |-> ex.primary, fallback |-> ex.fallback]]))

\* the value returned or the exception raised, and the global after the call
predict_credit_risk(model_data, dsk, st, has_shap, lib, req) ==
    With(load_model(model_data, dsk), LAMBDA ld :
    With(prepare_features_for_prediction(st, req), LAMBDA pf :
        IF ld.outcome # OkOutcome THEN Raised(ld.outcome, ld.model_data)
        ELSE IF pf.outcome # OkOutcome THEN Raised(pf.outcome, ld.model_data)
        ELSE With(align_features_with_model(pf.frame, ld.model_data.feature_names),
                  LAMBDA aligned_features :
                  ScoreAligned(has_shap, lib, ld.model_data, pf.frame, aligned_features))))

-----------------------------------------------------------------------------
(* backend.database: Session = scoped_session(session_factory) *)

NoSession == 0

\* registry: the session registered for the thread; sessions: the Session
\* objects made while serving the request, each idle (no connection), active
\* (in a transaction, holding a connection) or closed; handler: the session
\* the route handler got at entry; atCommit: the registered session when the
\* handler committed
NoDb == [registry |-> NoSession, sessions |-> <<>>, handler |-> NoSession,
         atCommit |-> NoSession]

\* a new request: the Session objects of the last one are unreferenced, only
\* a session still registered for the thread remains
Compact(d) ==
    IF d.registry = NoSession THEN NoDb
    ELSE [NoDb EXCEPT !.registry = 1, !.sessions = <<d.sessions[d.registry]>>]

\* Session(): the registered session, or a new one that gets registered
get_db_session(d, who) ==
    IF d.registry # NoSession
      THEN [db |-> d, session |-> d.registry]
      ELSE [db |-> [d EXCEPT !.registry = Len(d.sessions) + 1,
                             !.sessions = Append(d.sessions,
                                                 [state |-> "idle", owner |-> who])],
            session |-> Len(d.sessions) + 1]

\* Session.remove(): close the registered session, if any, and forget it
close_db_session(d) ==
    IF d.registry = NoSession THEN d
    ELSE [d EXCEPT !.sessions[d.registry].state = "closed", !.registry = NoSession]

\* query, add or attribute refresh: the session begins a transaction (a
\* closed session can be used again)
SessionUse(d, id) == [d EXCEPT !.sessions[id].state = "active"]

\* session.commit(): the transaction ends and the connection goes back
SessionCommit(d, id) == [d EXCEPT !.sessions[id].state = "idle", !.atCommit = d.registry]

\* session.rollback()
SessionRollback(d, id) ==
    [d EXCEPT !.sessions[id].state = IF @ = "active" THEN "idle" ELSE @]

\* the builder with close_db_session() at the end of the try body instead of
\* in a finally
prepare_features_sessions_no_finally(d, outcome) ==
    With(get_db_session(d, "builder"), LAMBDA g :
         IF outcome = OkOutcome THEN close_db_session(SessionUse(g.db, g.session))
                                ELSE SessionUse(g.db, g.session))

\* predict.py lines 59-139: get_db_session(), the queries, and
\* close_db_session() in the finally, whatever the outcome
prepare_features_sessions(d, outcome) ==
    With(get_db_session(d, "builder"), LAMBDA g :
         close_db_session(SessionUse(g.db, g.session)))

\* predict_credit_risk: the builder runs unless load_model raised
predict_sessions(d, st, req, loaded) ==
    IF loaded THEN prepare_features_sessions(d, prepare_features_for_prediction(st, req).outcome)
              ELSE d

\* batch_predict: the items that reach predict_credit_risk, in order
RECURSIVE batch_sessions(_, _, _)
batch_sessions(d, st, apps) ==
    IF apps = <<>> THEN d
    ELSE batch_sessions(IF Head(apps).missing = {}
                          THEN predict_sessions(d, st, Head(apps).request, TRUE)
                          ELSE d,
                        st, Tail(apps))

\* submit_application, lines 36-104
submit_sessions(d, st, data, loaded, predicted) ==
    With(get_db_session(Compact(d), "handler"), LAMBDA g :
    With([g.db EXCEPT !.handler = g.session], LAMBDA h :
        IF data.missing # {} THEN close_db_session(h)
        ELSE With(predict_sessions(h, st, data.request, loaded), LAMBDA p :
             IF ~predicted
               THEN close_db_session(SessionRollback(p, g.session))
               ELSE close_db_session(                       \* finally
                      SessionUse(                           \* new_application.application_id
                        SessionCommit(                      \* session.commit()
                          SessionUse(p, g.session),         \* session.add(new_application)
                          g.session),
                        g.session)))))

-----------------------------------------------------------------------------
(* State machine *)

NoCall == [op |-> "none", request |-> NoRequest, outcome |-> "", p |-> NoProbability,
           http |-> 0, status |-> ""]

InitWith(disks, libs) ==
    /\ MODEL_DATA = NoModel
    /\ disk \in disks
    /\ \E l \in libs : /\ HAS_SHAP = (l # "absent")
                       /\ shapLib = l
    /\ store = InitialStore
    /\ applications = <<>>
    /\ call = NoCall
    /\ features = EmptyFrame
    /\ aligned = EmptyFrame
    /\ result = NoResult
    /\ explain = NoExplain
    /\ batch = <<>>
    /\ results = <<>>
    /\ db = NoDb
    /\ loading = NoLoading

Init == InitWith(Disks, ShapBehaviours \cup {"absent"})

\* a caller loads the model on its own (batch_predict's first line, a warm-up)
LoadModel ==
    LET ld == load_model(MODEL_DATA, disk) IN
    /\ MODEL_DATA' = ld.model_data
    /\ loading' = Rebound(loading, MODEL_DATA, ld.model_data)
    /\ call' = [NoCall EXCEPT !.op = "load_model", !.outcome = ld.outcome]
    /\ features' = EmptyFrame
    /\ aligned' = EmptyFrame
    /\ result' = NoResult
    /\ explain' = NoExplain
    /\ UNCHANGED <<disk, HAS_SHAP, shapLib, store, applications, batch, results, db>>

\* a scoring call that also stored what it returned
PredictCreditRiskPersisting(req) ==
    \E r \in {predict_credit_risk(MODEL_DATA, disk, store, HAS_SHAP, shapLib, req)} :
    /\ MODEL_DATA' = r.model_data
    /\ loading' = Rebound(loading, MODEL_DATA, r.model_data)
    /\ call' = [NoCall EXCEPT !.op = "predict_credit_risk", !.request = req,
                              !.outcome = r.outcome, !.p = r.p]
    /\ features' = r.features
    /\ aligned' = r.aligned
    /\ result' = r.result
    /\ explain' = r.explain
    /\ db' = predict_sessions(Compact(db), store, req, r.outcome # FileNotFound)
    /\ applications' =
          IF r.outcome = OkOutcome /\ applications = <<>>
          THEN Append(applications,
                      [application_id |-> Len(applications) + 1,
                       customer_id |-> req.customer_id,
                       loan_amount |-> req.loan_amount,
                       loan_purpose |-> req.loan_purpose,
                       loan_tenure_months |-> req.loan_tenure_months,
                       interest_rate |-> req.interest_rate,
                       application_status |-> "Pending",
                       credit_score |-> r.result.credit_score,
                       risk_probability |-> r.result.risk_probability,
                       remarks |-> r.result.recommendation])
          ELSE applications
    /\ UNCHANGED <<disk, HAS_SHAP, shapLib, store, batch, results>>

PredictCreditRisk(req) ==
    \E r \in {predict_credit_risk(MODEL_DATA, disk, store, HAS_SHAP, shapLib, req)} :
    /\ MODEL_DATA' = r.model_data
    /\ loading' = Rebound(loading, MODEL_DATA, r.model_data)
    /\ call' = [NoCall EXCEPT !.op = "predict_credit_risk", !.request = req,
                              !.outcome = r.outcome, !.p = r.p]
    /\ features' = r.features
    /\ aligned' = r.aligned
    /\ result' = r.result
    /\ explain' = r.explain
    /\ db' = predict_sessions(Compact(db), store, req, r.outcome # FileNotFound)
    /\ UNCHANGED <<disk, HAS_SHAP, shapLib, store, applications, batch, results>>

\* frames a direct caller of get_shap_explanation may pass
TestFrames ==
    { Frame(ShortColumns, <<50000, 0, 2000, 0, 20000>>),
      [Frame(ShortColumns, <<20000, 0, 5000, 0, 4000>>)
          EXCEPT !.nonnumeric = {"existing_loans"}],
      [Frame(ShortColumns, <<20000, 0, 5000, 0, 0>>)
          EXCEPT !.nonnumeric = {"debt_to_income_ratio"}],
      Frame(LegacyColumns, <<3, 1>>) }

GetShapExplanation(df) ==
    /\ MODEL_DATA.loaded
    /\ \E ex \in {get_shap_explanation(HAS_SHAP, shapLib, MODEL_DATA, df)} :
         /\ call' = [NoCall EXCEPT !.op = "get_shap_explanation", !.outcome = ex.outcome]
         /\ features' = EmptyFrame
         /\ aligned' = df
         /\ result' = [NoResult EXCEPT !.contributors = ex.contributors]
         /\ explain' = [primary |-> ex.primary, fallback |-> ex.fallback]
    /\ UNCHANGED <<MODEL_DATA, disk, HAS_SHAP, shapLib, store, applications, batch, results,
                   db, loading>>

-----------------------------------------------------------------------------
(* submit_application (POST /apply) *)

MaxApplications == 1

RequiredFields == {"customer_id", "loan_amount", "loan_purpose", "loan_tenure_months",
                   "interest_rate"}

MissingFields == "missing fields"

\* everything that is not High is approved
ApplicationStatusLenient(risk_level) ==
    IF risk_level = "High" THEN "Rejected" ELSE "Approved"

\* lines 58-63
ApplicationStatus(risk_level) ==
    IF risk_level = "Low" THEN "Approved"
    ELSE IF risk_level = "High" THEN "Rejected"
    ELSE "Pending"

\* the Application row of lines 66-76
NewApplication(id, req, status, prediction) ==
    [application_id |-> id,
     customer_id |-> req.customer_id,
     loan_amount |-> req.loan_amount,
     loan_purpose |-> req.loan_purpose,
     loan_tenure_months |-> req.loan_tenure_months,
     interest_rate |-> req.interest_rate,
     application_status |-> status,
     credit_score |-> prediction.credit_score,
     risk_probability |-> prediction.risk_probability,
     remarks |-> prediction.recommendation]

\* a handler that adds and commits the row before it looks at how the
\* prediction ended
SubmitApplicationKeepsFailed(data) ==
    /\ Len(applications) < MaxApplications
    /\ IF data.missing # {}
       THEN /\ call' = [NoCall EXCEPT !.op = "submit_application", !.request = data.request,
                                      !.outcome = MissingFields, !.http = 400]
            /\ features' = EmptyFrame
            /\ aligned' = EmptyFrame
            /\ result' = NoResult
            /\ explain' = NoExplain
            /\ db' = submit_sessions(db, store, data, FALSE, FALSE)
            /\ UNCHANGED <<MODEL_DATA, applications, loading>>
       ELSE \E r \in {predict_credit_risk(MODEL_DATA, disk, store, HAS_SHAP, shapLib,
                                          data.request)} :
            \E status \in {ApplicationStatus(r.result.risk_level)} :
            /\ MODEL_DATA' = r.model_data
            /\ loading' = Rebound(loading, MODEL_DATA, r.model_data)
            /\ features' = r.features
            /\ aligned' = r.aligned
            /\ result' = r.result
            /\ explain' = r.explain
            /\ db' = submit_sessions(db, store, data, r.outcome # FileNotFound,
                                     r.outcome = OkOutcome)
            /\ IF r.outcome # OkOutcome
               THEN /\ call' = [NoCall EXCEPT !.op = "submit_application",
                                   !.request = data.request, !.outcome = r.outcome,
                                   !.http = 500]
                    /\ applications' = Append(applications,
                           NewApplication(Len(applications) + 1, data.request, status,
                                          r.result))
               ELSE /\ call' = [NoCall EXCEPT !.op = "submit_application",
                                   !.request = data.request, !.outcome = OkOutcome,
                                   !.p = r.p, !.http = 201, !.status = status]
                    /\ applications' = Append(applications,
                           NewApplication(Len(applications) + 1, data.request, status,
                                          r.result))
    /\ UNCHANGED <<disk, HAS_SHAP, shapLib, store, batch, results>>

\* data is the JSON body: the request, and the required fields it lacks
SubmitApplication(data) ==
    /\ Len(applications) < MaxApplications
    /\ IF data.missing # {}
       THEN /\ call' = [NoCall EXCEPT !.op = "submit_application", !.request = data.request,
                                      !.outcome = MissingFields, !.http = 400]
            /\ features' = EmptyFrame
            /\ aligned' = EmptyFrame
            /\ result' = NoResult
            /\ explain' = NoExplain
            /\ db' = submit_sessions(db, store, data, FALSE, FALSE)
            /\ UNCHANGED <<MODEL_DATA, applications, loading>>
       ELSE \E r \in {predict_credit_risk(MODEL_DATA, disk, store, HAS_SHAP, shapLib,
                                          data.request)} :
            \E status \in {ApplicationStatus(r.result.risk_level)} :
            /\ MODEL_DATA' = r.model_data
            /\ loading' = Rebound(loading, MODEL_DATA, r.model_data)
            /\ features' = r.features
            /\ aligned' = r.aligned
            /\ result' = r.result
            /\ explain' = r.explain
            /\ db' = submit_sessions(db, store, data, r.outcome # FileNotFound,
                                     r.outcome = OkOutcome)
            /\ IF r.outcome # OkOutcome
               THEN /\ call' = [NoCall EXCEPT !.op = "submit_application",
                                   !.request = data.request, !.outcome = r.outcome,
                                   !.http = 500]
                    /\ UNCHANGED applications
               ELSE /\ call' = [NoCall EXCEPT !.op = "submit_application",
                                   !.request = data.request, !.outcome = OkOutcome,
                                   !.p = r.p, !.http = 201, !.status = status]
                    /\ applications' = Append(applications,
                           NewApplication(Len(applications) + 1, data.request, status,
                                          r.result))
    /\ UNCHANGED <<disk, HAS_SHAP, shapLib, store, batch, results>>

SubmitTerms ==
    { <<1000000, 50, 10, "Home Purchase">>,
      <<2000000, 10, 10, "Wedding Expenses">>,
      <<-1000000, 50, 10, "Home Purchase">>,
      <<1000000, 0, 10, "Home Purchase">>,
      <<1000000, 50, 10, "Gambling">> }

SubmitData ==
    { [request |-> Request(c, t[1], t[2], t[3], t[4]), missing |-> {}] :
          c \in CustomerIds, t \in SubmitTerms }
    \cup { [request |-> Request(1, 1000000, 50, 10, "Home Purchase"), missing |-> {f}] :
              f \in RequiredFields }

\* frontend/pages/1_loan_application.py line 228: the label shown beside the
\* risk probability of the response (4 decimals, units of 1e-4)
DisplayedRiskLabel(risk_probability) ==
    IF 10 * risk_probability < 3 * (PUnit \div 10) THEN "Low"
    ELSE IF 10 * risk_probability < 5 * (PUnit \div 10) THEN "Medium"
    ELSE "High"

-----------------------------------------------------------------------------
(* batch_predict *)

MaxBatch == 3

\* the keys batch_predict reads from an application dict, in the order read
BatchFields == << "customer_id", "loan_amount", "loan_tenure_months", "interest_rate",
                 "loan_purpose" >>

KeyError(field) == "KeyError: " \o field

\* app.get('customer_id') of a dict without the key
NoCustomerId == NoRequest.customer_id

ErrorRecord(error, app) ==
    [error |-> error,
     customer_id |-> IF "customer_id" \in app.missing THEN NoCustomerId
                                                        ELSE app.request.customer_id]

IsErrorRecord(entry) == "error" \in DOMAIN entry

\* lines 314-327, one turn of the loop: [entry, model_data]
BatchItem(model_data, dsk, st, has_shap, lib, app) ==
    IF app.missing # {}
      THEN [entry |-> ErrorRecord(
                        KeyError(BatchFields[CHOOSE i \in 1..Len(BatchFields) :
                                    /\ BatchFields[i] \in app.missing
                                    /\ \A j \in 1..(i - 1) : BatchFields[j] \notin app.missing]),
                        app),
            model_data |-> model_data]
    ELSE With(predict_credit_risk(model_data, dsk, st, has_shap, lib, app.request), LAMBDA r :
              [entry |-> IF r.outcome = OkOutcome THEN r.result
                                                  ELSE ErrorRecord(r.outcome, app),
               model_data |-> r.model_data])

\* the loop returns at the first item that fails
RECURSIVE BatchLoopAbort(_, _, _, _, _, _, _)
BatchLoopAbort(model_data, dsk, st, has_shap, lib, apps, acc) ==
    IF apps = <<>> THEN [model_data |-> model_data, results |-> acc]
    ELSE With(BatchItem(model_data, dsk, st, has_shap, lib, Head(apps)), LAMBDA it :
              IF IsErrorRecord(it.entry)
                THEN [model_data |-> it.model_data, results |-> Append(acc, it.entry)]
                ELSE BatchLoopAbort(it.model_data, dsk, st, has_shap, lib, Tail(apps),
                                    Append(acc, it.entry)))

\* an item that follows a failed item fails with the same error
RECURSIVE BatchLoopPoisoned(_, _, _, _, _, _, _)
BatchLoopPoisoned(model_data, dsk, st, has_shap, lib, apps, acc) ==
    IF apps = <<>> THEN [model_data |-> model_data, results |-> acc]
    ELSE With(BatchItem(model_data, dsk, st, has_shap, lib, Head(apps)), LAMBDA it :
              BatchLoopPoisoned(it.model_data, dsk, st, has_shap, lib, Tail(apps),
                  Append(acc, IF acc # <<>> /\ IsErrorRecord(acc[Len(acc)])
                                THEN ErrorRecord(acc[Len(acc)].error, Head(apps))
                                ELSE it.entry)))

\* lines 312-329: [model_data, results]
RECURSIVE BatchLoop(_, _, _, _, _, _, _)
BatchLoop(model_data, dsk, st, has_shap, lib, apps, acc) ==
    IF apps = <<>> THEN [model_data |-> model_data, results |-> acc]
    ELSE With(BatchItem(model_data, dsk, st, has_shap, lib, Head(apps)), LAMBDA it :
              BatchLoop(it.model_data, dsk, st, has_shap, lib, Tail(apps),
                        Append(acc, it.entry)))

\* [outcome, model_data, results]; load_model at line 308 is outside the try
batch_predict(model_data, dsk, st, has_shap, lib, apps) ==
    With(load_model(model_data, dsk), LAMBDA ld :
        IF ld.outcome # OkOutcome
          THEN [outcome |-> ld.outcome, model_data |-> ld.model_data, results |-> <<>>]
        ELSE With(BatchLoop(ld.model_data, dsk, st, has_shap, lib, apps, <<>>), LAMBDA lp :
                  [outcome |-> OkOutcome, model_data |-> lp.model_data,
                   results |-> lp.results]))

BatchPredict(apps) ==
    \E b \in {batch_predict(MODEL_DATA, disk, store, HAS_SHAP, shapLib, apps)} :
    /\ MODEL_DATA' = b.model_data
    /\ loading' = Rebound(loading, MODEL_DATA, b.model_data)
    /\ call' = [NoCall EXCEPT !.op = "batch_predict", !.outcome = b.outcome]
    /\ batch' = apps
    /\ results' = b.results
    /\ db' = IF b.outcome = OkOutcome THEN batch_sessions(Compact(db), store, apps)
                                      ELSE Compact(db)
    /\ features' = EmptyFrame
    /\ aligned' = EmptyFrame
    /\ result' = NoResult
    /\ explain' = NoExplain
    /\ UNCHANGED <<disk, HAS_SHAP, shapLib, store, applications>>

\* application dicts: two that score, an unknown customer, a customer without
\* employment data, a customer with no income, and two with keys missing
BatchApps ==
    { [request |-> Request(1, 1000000, 50, 10, "Home Purchase"), missing |-> {}],
      [request |-> Request(2, 2000000, 10, 10, "Wedding Expenses"), missing |-> {}],
      [request |-> Request(5, 1000000, 50, 10, "Home Purchase"), missing |-> {}],
      [request |-> Request(4, 1000000, 50, 10, "Education"), missing |-> {}],
      [request |-> Request(3, 1000000, 50, 10, "Education"), missing |-> {}],
      [request |-> Request(1, 1000000, 50, 10, "Home Purchase"),
       missing |-> {"loan_amount"}],
      [request |-> Request(2, 2000000, 10, 10, "Wedding Expenses"),
       missing |-> {"customer_id", "loan_purpose"}] }

Batches ==
    UNION { { Build(LAMBDA i : f[i], n) : f \in [1..n -> BatchApps] } : n \in 0..MaxBatch }

\* the caller drops what the last call returned: frames and result are
\* request-scoped
Discard ==
    /\ call.op # "none"
    /\ call' = NoCall
    /\ features' = EmptyFrame
    /\ aligned' = EmptyFrame
    /\ result' = NoResult
    /\ explain' = NoExplain
    /\ batch' = <<>>
    /\ results' = <<>>
    /\ db' = Compact(db)
    /\ UNCHANGED <<MODEL_DATA, disk, HAS_SHAP, shapLib, store, applications, loading>>

\* load_model run by thread t, one step per access to the shared global.
\* line 38: the test of the global
TestCached(t) ==
    /\ loading.pc[t] \in {"idle", "done", "raised"}
    /\ loading' = [loading EXCEPT
                      !.pc[t] = IF MODEL_DATA.loaded THEN "return" ELSE "load"]
    /\ UNCHANGED <<MODEL_DATA, disk, HAS_SHAP, shapLib, store, applications, call,
                   features, aligned, result, explain, batch, results, db>>

\* lines 39-47: joblib.load and the assignment to the global, or the re-raised
\* FileNotFoundError; the thread does not test the global again
JoblibLoad(t) ==
    /\ loading.pc[t] = "load"
    /\ \E ld \in {load_model(NoModel, disk)} :
         IF ld.outcome = OkOutcome
         THEN /\ MODEL_DATA' = ld.model_data
              /\ loading' = [loading EXCEPT !.pc[t] = "return",
                                            !.made = @ + 1,
                                            !.cached = loading.made + 1]
         ELSE /\ loading' = [loading EXCEPT !.pc[t] = "raised"]
              /\ UNCHANGED MODEL_DATA
    /\ UNCHANGED <<disk, HAS_SHAP, shapLib, store, applications, call,
                   features, aligned, result, explain, batch, results, db>>

\* line 50: return MODEL_DATA, the object the global is bound to now
ReturnModel(t) ==
    /\ loading.pc[t] = "return"
    /\ loading' = [loading EXCEPT !.pc[t] = "done", !.got[t] = loading.cached]
    /\ UNCHANGED <<MODEL_DATA, disk, HAS_SHAP, shapLib, store, applications, call,
                   features, aligned, result, explain, batch, results, db>>

Idle == call.op = "none"

\* one request at a time: a call starts when the previous one has been consumed
Next ==
    \/ Idle /\ LoadModel
    \/ Idle /\ \E req \in Requests : PredictCreditRisk(req)
    \/ Idle /\ \E df \in TestFrames : GetShapExplanation(df)
    \/ Discard

Spec == Init /\ [][Next]_vars

\* the submission workflow, against an artifact with the training schema
InitSubmit ==
    InitWith({d \in Disks : d.present => d.content.feature_names = TrainingColumns},
             {"list"})

NextSubmit ==
    \/ Idle /\ \E data \in SubmitData : SubmitApplication(data)
    \/ Discard

SpecSubmit == InitSubmit /\ [][NextSubmit]_vars

\* batch scoring (overnight scoring of pending applications)
InitBatch ==
    InitWith({d \in Disks : d.present => d.content.feature_names = ShortColumns},
             {"list", "absent"})

NextBatch ==
    \/ Idle /\ \E apps \in Batches : BatchPredict(apps)
    \/ Discard

SpecBatch == InitBatch /\ [][NextBatch]_vars

\* the feature builder over customers on both sides of every band bound
BuilderCustomers ==
    (1 :> [age_days |-> 9131,  gender |-> "Female", state |-> "Kerala"]) @@
    (2 :> [age_days |-> 9132,  gender |-> "Male",   state |-> "Maharashtra"]) @@
    (3 :> [age_days |-> 12783, gender |-> "Male",   state |-> "Punjab"]) @@
    (4 :> [age_days |-> 12784, gender |-> "Female", state |-> "Gujarat"]) @@
    (5 :> [age_days |-> 16436, gender |-> "Male",   state |-> "Telangana"]) @@
    (6 :> [age_days |-> 16437, gender |-> "Female", state |-> "Maharashtra"]) @@
    (7 :> [age_days |-> 20088, gender |-> "Male",   state |-> "Gujarat"]) @@
    (8 :> [age_days |-> 20089, gender |-> "Female", state |-> "Punjab"])

BuilderEmployments ==
    (1 :> [employment_type |-> "Salaried",      monthly_income |-> 80000,
           years_of_experience |-> 0]) @@
    (2 :> [employment_type |-> "Salaried",      monthly_income |-> 50000,
           years_of_experience |-> 20]) @@
    (3 :> [employment_type |-> "Self-Employed", monthly_income |-> 20000,
           years_of_experience |-> 21]) @@
    (4 :> [employment_type |-> "Salaried",      monthly_income |-> 30000,
           years_of_experience |-> 50]) @@
    (5 :> [employment_type |-> "Business",      monthly_income |-> 100000,
           years_of_experience |-> 51]) @@
    (6 :> [employment_type |-> "Self-Employed", monthly_income |-> 25000,
           years_of_experience |-> 100]) @@
    (7 :> [employment_type |-> "Salaried",      monthly_income |-> 45000,
           years_of_experience |-> 101]) @@
    (8 :> [employment_type |-> "Business",      monthly_income |-> 80000,
           years_of_experience |-> 400])

BuilderTerms ==
    { <<1000000, 60, 10, "Home Purchase">>,
      <<1000000, 60, 14, "Home Purchase">>,
      <<500000,  12, 7,  "Education">>,
      <<100000,  36, 15, "Vehicle Purchase">>,
      <<300000,  24, 12, "Business Expansion">>,
      <<300000,  24, 12, "Debt Consolidation">>,
      <<300000,  24, 12, "Home Renovation">>,
      <<300000,  24, 12, "Medical Emergency">>,
      <<300000,  24, 12, "Wedding Expenses">> }

BuilderRequests ==
    { Request(c, t[1], t[2], t[3], t[4]) : c \in DOMAIN BuilderCustomers, t \in BuilderTerms }

InitBuilder ==
    /\ MODEL_DATA = NoModel
    /\ disk \in {d \in Disks : d.present /\ d.content.feature_names = TrainingColumns}
    /\ HAS_SHAP = FALSE
    /\ shapLib = "absent"
    /\ store = [customers |-> BuilderCustomers, employments |-> BuilderEmployments]
    /\ applications = <<>>
    /\ call = NoCall
    /\ features = EmptyFrame
    /\ aligned = EmptyFrame
    /\ result = NoResult
    /\ explain = NoExplain
    /\ batch = <<>>
    /\ results = <<>>
    /\ db = NoDb
    /\ loading = NoLoading

NextBuilder ==
    \/ Idle /\ \E req \in BuilderRequests : PredictCreditRisk(req)
    \/ Discard

SpecBuilder == InitBuilder /\ [][NextBuilder]_vars

\* one process over time, while the artifact file is written, replaced or
\* removed (ml/train_model.py writes MODEL_PATH)
ArtifactA == [loaded |-> TRUE, feature_names |-> ShortColumns, seed |-> 0]

ArtifactB == [loaded |-> TRUE, feature_names |-> LegacyColumns, seed |-> 3]

CacheDisks == {MissingFile, [present |-> TRUE, content |-> ArtifactA],
               [present |-> TRUE, content |-> ArtifactB]}

CacheRequests == { Request(1, 1000000, 50, 10, "Home Purchase"),
                   Request(2, 2000000, 10, 10, "Wedding Expenses"),
                   Request(5, 1000000, 50, 10, "Home Purchase") }

CacheBatches ==
    { <<>>,
      << [request |-> Request(1, 1000000, 50, 10, "Home Purchase"), missing |-> {}] >>,
      << [request |-> Request(5, 1000000, 50, 10, "Home Purchase"), missing |-> {}],
         [request |-> Request(2, 2000000, 10, 10, "Wedding Expenses"), missing |-> {}] >> }

WriteArtifact(d) ==
    /\ disk # d
    /\ disk' = d
    /\ UNCHANGED <<MODEL_DATA, HAS_SHAP, shapLib, store, applications, call, features,
                   aligned, result, explain, batch, results, db, loading>>

InitCache == InitWith(CacheDisks, {"absent"})

NextCache ==
    \/ LoadModel
    \/ \E req \in CacheRequests : PredictCreditRisk(req)
    \/ \E apps \in CacheBatches : BatchPredict(apps)
    \/ \E d \in CacheDisks : WriteArtifact(d)

SpecCache == InitCache /\ [][NextCache]_vars


\* the scoring core called beside the submission handler, on one store
WorkflowRequests == { Request(c, 1000000, 50, 10, "Home Purchase") : c \in CustomerIds }

NextWorkflow ==
    \/ Idle /\ \E data \in SubmitData : SubmitApplication(data)
    \/ Idle /\ \E req \in WorkflowRequests : PredictCreditRisk(req)
    \/ Idle /\ \E apps \in CacheBatches : BatchPredict(apps)
    \/ Discard

SpecWorkflow == InitSubmit /\ [][NextWorkflow]_vars

\* request threads calling load_model at the same time
InitLoad == InitWith(CacheDisks, {"absent"})

NextLoad ==
    \/ \E t \in Threads : TestCached(t)
    \/ \E t \in Threads : JoblibLoad(t)
    \/ \E t \in Threads : ReturnModel(t)

SpecLoad == InitLoad /\ [][NextLoad]_vars

\* back-to-back scorings of valid requests by one process
ScoreRequests == {r \in Requests : /\ r.customer_id \in {1, 2}
                                   /\ r.loan_tenure_months # 0}

InitScore ==
    InitWith({d \in Disks : d.present /\ d.content.feature_names = ShortColumns},
             {"absent"})

NextScore == \E req \in ScoreRequests : PredictCreditRisk(req)

SpecScore == InitScore /\ [][NextScore]_vars



-----------------------------------------------------------------------------
(* Properties *)

Tiers == {"Low", "Medium", "High"}

\* the last call ran the scoring pipeline to its end
Scored == /\ call.op \in {"predict_credit_risk", "submit_application"}
          /\ call.outcome = OkOutcome

\* the last call reached the feature builder and the builder returned a frame
BuilderReturned == /\ call.op \in {"predict_credit_risk", "submit_application"}
                   /\ features.columns # <<>>

\* C1: a scored probability p gets Low / 'Approve' iff p < 0.30, Medium /
\* 'Manual Review Required' iff 0.30 <= p < 0.50, High / 'Reject or Require
\* Collateral' iff p >= 0.50; each p gets exactly one tier.
C1_TierByProbability ==
    Scored =>
      /\ result.risk_level \in Tiers
      /\ (result.risk_level = "Low") <=> (100 * call.p < 30 * PUnit)
      /\ (result.risk_level = "Medium")
            <=> (30 * PUnit <= 100 * call.p /\ 100 * call.p < 50 * PUnit)
      /\ (result.risk_level = "High") <=> (100 * call.p >= 50 * PUnit)
      /\ (result.recommendation = "Approve") <=> (result.risk_level = "Low")
      /\ (result.recommendation = "Manual Review Required")
            <=> (result.risk_level = "Medium")
      /\ (result.recommendation = "Reject or Require Collateral")
            <=> (result.risk_level = "High")

C1_Witness ==
    /\ Scored
    /\ 100 * call.p = 30 * PUnit
    /\ result.risk_level = "Medium"
    /\ result.recommendation = "Manual Review Required"

\* C2: the returned credit_score is clamp(850 - p * 550, 300, 850) rounded to
\* two decimals, lies in [300, 850], is 850 at p = 0 and 300 at p = 1, and of
\* two scorings the one with the larger p never has the larger score.
C2_ScoreOfProbability ==
    Scored =>
      /\ Abs(20 * result.credit_score
             - Max(20 * 300 * Centi, Min(20 * 850 * Centi, 20 * 850 * Centi - 11 * call.p)))
           <= 10
      /\ 300 * Centi <= result.credit_score
      /\ result.credit_score <= 850 * Centi
      /\ call.p = 0 => result.credit_score = 850 * Centi
      /\ call.p = PUnit => result.credit_score = 300 * Centi

C2_Monotone ==
    (Scored /\ Scored' /\ call.p < call'.p) => result.credit_score >= result'.credit_score

C2_CreditScore == [](C2_ScoreOfProbability) /\ [][C2_Monotone]_vars

C2_Witness ==
    /\ Scored
    /\ call.p = PUnit
    /\ result.credit_score = 300 * Centi

\* C3: a committed application's status is Approved iff p < 0.30, Pending iff
\* 0.30 <= p < 0.50, Rejected iff p >= 0.50, whatever the request.
C3_StatusByTier ==
    (call.op = "submit_application" /\ call.http = 201) =>
      /\ Len(applications) > 0
      /\ LET app == applications[Len(applications)] IN
           /\ app.application_status = call.status
           /\ (app.application_status = "Approved") <=> (100 * call.p < 30 * PUnit)
           /\ (app.application_status = "Pending")
                 <=> (30 * PUnit <= 100 * call.p /\ 100 * call.p < 50 * PUnit)
           /\ (app.application_status = "Rejected") <=> (100 * call.p >= 50 * PUnit)

C3_Witness ==
    /\ call.op = "submit_application"
    /\ call.http = 201
    /\ 100 * call.p = 30 * PUnit
    /\ Len(applications) = 1
    /\ applications[1].application_status = "Pending"

\* C4: the aligned frame has exactly the model's columns in the model's order;
\* each holds the builder's value of that name, or 0 when the builder has no
\* such column; once the builder returned a frame the call does not fail in
\* alignment, whatever the overlap.
C4_Alignment ==
    BuilderReturned =>
      /\ call.outcome = OkOutcome
      /\ aligned.columns = MODEL_DATA.feature_names
      /\ Len(aligned.values) = Len(MODEL_DATA.feature_names)
      /\ \A i \in 1..Len(aligned.columns) :
            \/ \E j \in 1..Len(features.columns) :
                  /\ features.columns[j] = aligned.columns[i]
                  /\ aligned.values[i] = features.values[j]
            \/ /\ \A j \in 1..Len(features.columns) :
                     features.columns[j] # aligned.columns[i]
               /\ aligned.values[i] = 0

\* a schema with kept, zero-filled and (on the builder's side) dropped columns
C4_Witness ==
    /\ BuilderReturned
    /\ aligned.columns = ShortColumns
    /\ aligned.values[1] = features.values[4]
    /\ aligned.values[1] # 0
    /\ aligned.values[4] = 0
    /\ Len(features.columns) > Len(aligned.columns)

\* no column of the builder is named by the schema
C4_WitnessDisjoint ==
    /\ BuilderReturned
    /\ aligned.columns = LegacyColumns
    /\ aligned.values = <<0, 0>>

\* C5: the builder's frame has the column high_risk_flag, 1 iff DTI > 50 or
\* LTI > 36 or income < 30000, and an artifact that names the column gets that
\* value in the aligned frame.
C5_HighRiskFlagInFrame ==
    BuilderReturned =>
      LET req == call.request
          income == store.employments[req.customer_id].monthly_income
          flag == HighRiskFlag(req.loan_amount, req.loan_tenure_months, income)
      IN  /\ HasColumn(features, "high_risk_flag")
          /\ Cell(features, "high_risk_flag") = flag
          /\ HasColumn(aligned, "high_risk_flag") => Cell(aligned, "high_risk_flag") = flag

InvalidState == "InvalidState: monthly_income is zero"

\* C6: scoring a customer whose monthly income is 0 fails with the explicit
\* precondition error, not with a division error.
C6_ZeroIncomeInvalidState ==
    ( /\ call.op = "predict_credit_risk"
      /\ MODEL_DATA.loaded
      /\ call.request.customer_id \in DOMAIN store.employments
      /\ call.request.customer_id \in DOMAIN store.customers
      /\ store.employments[call.request.customer_id].monthly_income = 0 )
    => call.outcome = InvalidState

\* C7: with the artifact available, an unknown customer fails with the customer
\* error even when other preconditions fail too, a customer without employment
\* record fails with the employment error, and the outcomes for unknown
\* customer, missing employment and zero income are three different ones, each
\* telling which precondition failed.
C7_NotFoundErrors ==
    (call.op = "predict_credit_risk" /\ MODEL_DATA.loaded) =>
      LET cid == call.request.customer_id
          known == cid \in DOMAIN store.customers
          employed == cid \in DOMAIN store.employments
      IN  /\ (call.outcome = CustomerNotFound) <=> ~known
          /\ (call.outcome = EmploymentNotFound) <=> (known /\ ~employed)
          /\ (known /\ employed /\ store.employments[cid].monthly_income = 0)
                => call.outcome \notin {OkOutcome, CustomerNotFound, EmploymentNotFound}

\* the customer check comes first: unknown customer and zero tenure together
C7_Witness ==
    /\ call.op = "predict_credit_risk"
    /\ MODEL_DATA.loaded
    /\ call.request.customer_id \notin DOMAIN store.customers
    /\ call.request.customer_id \notin DOMAIN store.employments
    /\ call.request.loan_tenure_months = 0
    /\ call.outcome = CustomerNotFound

ValidRequest(req) ==
    /\ req.loan_amount > 0
    /\ req.loan_tenure_months > 0
    /\ req.interest_rate >= 0
    /\ req.loan_purpose \in Purposes

\* C8: a request with loan_amount <= 0, loan_tenure_months <= 0,
\* interest_rate < 0 or an unknown purpose is never scored and never reaches
\* the division by the tenure.
C8_InvalidRequestRejected ==
    ( /\ call.op \in {"predict_credit_risk", "submit_application"}
      /\ call.outcome # MissingFields
      /\ ~ValidRequest(call.request) )
    => /\ call.p = NoProbability
       /\ call.outcome \notin {OkOutcome, DivisionByZero}

\* C9: get_shap_explanation returns a list for every input, the empty one when
\* primary method and fallback both fail, and a scoring whose features were
\* built returns score, tier and recommendation whatever attribution did.
C9_AttributionNeverRaises ==
    /\ call.op = "get_shap_explanation" => call.outcome = OkOutcome
    /\ BuilderReturned =>
          /\ call.outcome = OkOutcome
          /\ result.risk_level \in Tiers
          /\ result.recommendation # ""
          /\ result.credit_score >= 300 * Centi
    /\ explain.fallback = "failed" => (call.outcome = OkOutcome /\ result.contributors = <<>>)
    /\ Len(result.contributors) <= 5

C9_Witness ==
    /\ call.op = "get_shap_explanation"
    /\ explain.primary = "raised"
    /\ explain.fallback = "failed"
    /\ call.outcome = OkOutcome
    /\ result.contributors = <<>>

\* the pipeline's side: the library raised and the scoring still returned
C9_WitnessPipeline ==
    /\ call.op = "predict_credit_risk"
    /\ explain.primary = "raised"
    /\ call.outcome = OkOutcome
    /\ result.risk_level \in Tiers

AttributionRan == call.op \in {"predict_credit_risk", "submit_application",
                               "get_shap_explanation"}
                  /\ explain # NoExplain

\* C10: without the library, or when the primary method raises, the
\* contributors come from the heuristic fallback and the call returns a list;
\* when the primary method succeeds the fallback is not used.
C10_FallbackOnPrimaryFailure ==
    AttributionRan =>
      /\ call.outcome = OkOutcome
      /\ ~HAS_SHAP => explain.primary = "absent"
      /\ explain.primary \in {"absent", "raised"} => explain.fallback \in {"ok", "failed"}
      /\ explain.primary = "ok" => explain.fallback = "unused"
      /\ ( /\ explain.fallback = "ok"
           /\ HasColumn(aligned, "debt_to_income_ratio")
           /\ Abs((Cell(aligned, "debt_to_income_ratio") - 40 * Centi) * 150) > Micro \div 1000 )
         => \E k \in 1..Len(result.contributors) :
               /\ result.contributors[k].feature = "debt_to_income_ratio"
               /\ result.contributors[k].impact
                     = (Cell(aligned, "debt_to_income_ratio") - 40 * Centi) * 150
      /\ explain.fallback = "ok" =>
            \A k \in 1..Len(result.contributors) :
               result.contributors[k].feature \in FallbackColumns

C10_Witness ==
    /\ call.op = "predict_credit_risk"
    /\ ~HAS_SHAP
    /\ explain.primary = "absent"
    /\ explain.fallback = "ok"
    /\ Len(result.contributors) > 0

\* the primary method raised inside a scoring
C10_WitnessRaised ==
    /\ call.op = "predict_credit_risk"
    /\ HAS_SHAP
    /\ explain.primary = "raised"
    /\ explain.fallback = "ok"
    /\ Len(result.contributors) > 0

\* what the primary method returned in the call just made
PrimaryOutput == PrimaryAttribution(shapLib, MODEL_DATA, aligned)

\* not one impact per column of the aligned frame, or a NaN among them
MalformedOrNaN(values, df) ==
    \/ Len(values) # Len(df.columns)
    \/ \E i \in 1..Len(values) : IsNaN(values[i])

PrimaryReturned == /\ AttributionRan
                   /\ call.outcome = OkOutcome
                   /\ HAS_SHAP
                   /\ explain.primary = "ok"

\* C11: when the primary method returns without raising but its output is
\* malformed (not one impact per feature of the aligned frame) or holds a NaN,
\* the output is discarded and the contributors come from the fallback.
C11_MalformedPrimaryDiscarded ==
    (PrimaryReturned /\ MalformedOrNaN(PrimaryOutput.values, aligned))
      => explain.fallback \in {"ok", "failed"}

\* the impact vector the contributors of the call just made were formatted from
ImpactVector ==
    IF explain.primary = "ok" THEN PrimaryOutput.values
                              ELSE FallbackAttribution(aligned).values

Formatted == /\ AttributionRan
             /\ call.outcome = OkOutcome
             /\ explain.fallback # "failed"

\* C12: the contributors list has at most 5 entries, is ordered by
\* non-increasing |impact|, holds only entries with |impact| > 0.001, and names
\* each feature at most once, with that feature's own signed impact.
C12_ContributorsWellFormed ==
    Formatted =>
      LET c == result.contributors IN
      /\ Len(c) <= 5
      /\ \A k \in 1..(Len(c) - 1) : Abs(c[k].impact) >= Abs(c[k + 1].impact)
      /\ \A k \in 1..Len(c) : /\ ~IsNaN(c[k].impact)
                              /\ Abs(c[k].impact) > Micro \div 1000
      /\ \A j, k \in 1..Len(c) : c[j].feature = c[k].feature => j = k
      /\ \A k \in 1..Len(c) :
            /\ HasColumn(aligned, c[k].feature)
            /\ c[k].impact = ImpactVector[IndexOf(aligned.columns, c[k].feature)]

\* the library's attributions of the row to class 1, one per column
PositiveClassRow(lib, model, df) ==
    IF lib = "nan" THEN PrimaryAttribution(lib, model, df).values
                   ELSE ClassRow(model, df, 1)

\* C13: when the primary method succeeds, the impacts paired with the feature
\* names are the class-1 attributions of the row, exactly one per feature in
\* aligned column order, whatever shape the library returns.
C13_PositiveClassImpacts ==
    PrimaryReturned =>
      /\ PrimaryOutput.values = PositiveClassRow(shapLib, MODEL_DATA, aligned)
      /\ \A k \in 1..Len(result.contributors) :
            result.contributors[k].impact
              = PositiveClassRow(shapLib, MODEL_DATA, aligned)
                  [IndexOf(aligned.columns, result.contributors[k].feature)]

FallbackRan == /\ AttributionRan
               /\ call.outcome = OkOutcome
               /\ explain.fallback = "ok"

\* the impact the heuristic gives a column holding value v
HeuristicImpact(column, v) ==
    IF column = "debt_to_income_ratio" THEN (v - 40 * Centi) * 150
    ELSE IF column = "loan_to_income_ratio" THEN (v - 30 * Centi) * 100
    ELSE IF column = "monthly_income" THEN (50000 - v) * 10
    ELSE 0

\* C14: the fallback gives a non-zero impact only to debt_to_income_ratio,
\* loan_to_income_ratio and monthly_income, and only when the column is in the
\* aligned frame: (dti - 40) * 0.015, (lti - 30) * 0.01, (50000 - income) * 0.00001;
\* every other feature gets 0 and is never a contributor, so a fallback
\* result has at most 3 entries.
C14_FallbackHeuristic ==
    FallbackRan =>
      LET c == result.contributors IN
      /\ Len(c) <= 3
      /\ \A k \in 1..Len(c) :
            /\ c[k].feature \in FallbackColumns
            /\ HasColumn(aligned, c[k].feature)
            /\ c[k].impact = HeuristicImpact(c[k].feature, Cell(aligned, c[k].feature))
      /\ \A f \in FallbackColumns :
            ( /\ HasColumn(aligned, f)
              /\ Abs(HeuristicImpact(f, Cell(aligned, f))) > Micro \div 1000 )
            => \E k \in 1..Len(c) : c[k].feature = f
      /\ \A k \in 1..Len(c) :
            (c[k].feature = "debt_to_income_ratio" /\ c[k].impact > 0)
              => Cell(aligned, "debt_to_income_ratio") > 40 * Centi

\* the heuristic ran on a frame that has the three columns and other columns
\* with non-zero cells, and all three are contributors
C14_Witness ==
    /\ FallbackRan
    /\ Len(result.contributors) = 3
    /\ \E i \in 1..Len(aligned.columns) :
          aligned.columns[i] \notin FallbackColumns /\ aligned.values[i] # 0

\* the heuristic ran on a frame with none of the three columns
C14_WitnessNoColumns ==
    /\ FallbackRan
    /\ FallbackColumns \cap Range(aligned.columns) = {}
    /\ result.contributors = <<>>

BatchReturned == call.op = "batch_predict" /\ call.outcome = OkOutcome

\* the item cannot be scored: a key is missing, the customer is unknown, the
\* customer has no employment data, or a ratio has a zero denominator
FailingItem(app) ==
    \/ app.missing # {}
    \/ app.request.customer_id \notin DOMAIN store.customers
    \/ app.request.customer_id \notin DOMAIN store.employments
    \/ store.employments[app.request.customer_id].monthly_income = 0
    \/ app.request.loan_tenure_months = 0

\* C15: batch_predict returns a list as long as its input; entry i is the
\* PredictionResult of application i, or {error, customer_id} when scoring it
\* failed; a failing item neither aborts the batch nor shifts later items, so
\* there are as many error records as failing items.
C15_BatchPerItemErrors ==
    BatchReturned =>
      /\ Len(results) = Len(batch)
      /\ \A i \in 1..Len(batch) :
            /\ IsErrorRecord(results[i]) <=> FailingItem(batch[i])
            /\ IsErrorRecord(results[i]) =>
                  /\ DOMAIN results[i] = {"error", "customer_id"}
                  /\ results[i].customer_id =
                        IF "customer_id" \in batch[i].missing
                          THEN NoCustomerId ELSE batch[i].request.customer_id
            /\ ~IsErrorRecord(results[i]) =>
                  /\ DOMAIN results[i] = DOMAIN NoResult
                  /\ results[i].factors.monthly_income
                        = store.employments[batch[i].request.customer_id].monthly_income
      /\ Cardinality({i \in 1..Len(results) : IsErrorRecord(results[i])})
           = Cardinality({i \in 1..Len(batch) : FailingItem(batch[i])})

\* one bad id among good ones: three entries, exactly one an error record,
\* and it is not the last
C15_Witness ==
    /\ BatchReturned
    /\ Len(batch) = 3
    /\ Cardinality({i \in 1..Len(results) : IsErrorRecord(results[i])}) = 1
    /\ IsErrorRecord(results[1])
    /\ ~IsErrorRecord(results[3])

\* what a process that scores the application on its own gets for it
ScoredAlone(app) == BatchItem(NoModel, disk, store, HAS_SHAP, shapLib, app).entry

\* C16: the entry at index i is the outcome of scoring application i alone,
\* whatever else the batch holds, in whatever order, and whether or not
\* earlier items failed.
C16_BatchItemsIndependent ==
    BatchReturned =>
      /\ Len(results) = Len(batch)
      /\ \A i \in 1..Len(batch) : results[i] = ScoredAlone(batch[i])
      /\ \A i, j \in 1..Len(batch) : batch[i] = batch[j] => results[i] = results[j]

\* the same application after a failed item and after a scored one
C16_Witness ==
    /\ BatchReturned
    /\ Len(batch) = 3
    /\ IsErrorRecord(results[1])
    /\ ~IsErrorRecord(results[2])
    /\ batch[3] = batch[2]

\* C17 as stated: the returned model_confidence equals max(p, 1 - p), lies in
\* [0.5, 1], and is 0.5 exactly at p = 0.5.
C17_ConfidenceExact ==
    Scored =>
      /\ 10 * result.model_confidence = Max(call.p, PUnit - call.p)
      /\ 10 * result.model_confidence >= PUnit \div 2
      /\ 10 * result.model_confidence <= PUnit
      /\ (10 * result.model_confidence = PUnit \div 2) <=> (call.p = PUnit \div 2)

\* C17, amended: the returned model_confidence is max(p, 1 - p) rounded to
\* four decimals, lies in [0.5, 1], is 0.5 at p = 0.5, and is 0.5 only for p
\* within 0.00005 of 0.5.
C17_ConfidenceRounded ==
    Scored =>
      /\ Abs(10 * result.model_confidence - Max(call.p, PUnit - call.p)) <= 5
      /\ 10 * result.model_confidence >= PUnit \div 2
      /\ 10 * result.model_confidence <= PUnit
      /\ call.p = PUnit \div 2 => 10 * result.model_confidence = PUnit \div 2
      /\ 10 * result.model_confidence = PUnit \div 2 => Abs(call.p - PUnit \div 2) <= 5

\* a probability just below 0.5 whose confidence is returned as 0.5
C17_Witness ==
    /\ Scored
    /\ call.p # PUnit \div 2
    /\ 10 * result.model_confidence = PUnit \div 2

\* the two ends of the range: p = 0.5 and p = 1
C17_WitnessRange ==
    /\ Scored
    /\ call.p \in {PUnit \div 2, PUnit}
    /\ 10 * result.model_confidence = Max(call.p, PUnit - call.p)

\* C18: aligning the aligned frame again against the same feature list gives
\* the same frame, and a builder frame with none of the expected columns
\* aligns, without raising, to the all-zero frame with exactly the model's
\* columns.
C18_AlignIdempotentTotal ==
    BuilderReturned =>
      /\ align_features_with_model(aligned, MODEL_DATA.feature_names) = aligned
      /\ (Range(features.columns) \cap Range(MODEL_DATA.feature_names) = {}) =>
            /\ call.outcome = OkOutcome
            /\ aligned.columns = MODEL_DATA.feature_names
            /\ aligned.values = Build(LAMBDA i : 0, Len(MODEL_DATA.feature_names))

\* alignment changed the builder's frame (columns dropped, added and moved) and
\* a second alignment changes nothing
C18_Witness ==
    /\ BuilderReturned
    /\ aligned.columns # features.columns
    /\ \E i \in 1..Len(aligned.values) : aligned.values[i] # 0
    /\ \E i \in 1..Len(aligned.columns) : ~HasColumn(features, aligned.columns[i])
    /\ align_features_with_model(aligned, MODEL_DATA.feature_names) = aligned

\* none of the expected columns is in the builder's frame
C18_WitnessAllZero ==
    /\ BuilderReturned
    /\ Range(features.columns) \cap Range(MODEL_DATA.feature_names) = {}
    /\ Len(aligned.columns) > 0
    /\ \A i \in 1..Len(aligned.values) : aligned.values[i] = 0

\* the builder returned a frame for a valid request of a customer with income
BuiltForValid ==
    /\ BuilderReturned
    /\ ValidRequest(call.request)
    /\ store.employments[call.request.customer_id].monthly_income > 0

Rates == 7..15

\* C19: estimated_emi = loan_amount / loan_tenure_months, debt_to_income_ratio
\* = estimated_emi / monthly_income * 100, loan_to_income_ratio = loan_amount /
\* monthly_income (cells hold hundredths, rounded down); none of the three
\* depends on interest_rate; income 80000, amount 1000000, tenure 60 gives
\* 20.83 and 12.5, below the thresholds 50 and 36.
C19_RatioFeatures ==
    BuiltForValid =>
      LET amount == call.request.loan_amount
          tenure == call.request.loan_tenure_months
          income == store.employments[call.request.customer_id].monthly_income
          emi == Cell(features, "estimated_emi")
          dti == Cell(features, "debt_to_income_ratio")
          lti == Cell(features, "loan_to_income_ratio")
      IN  /\ emi * tenure <= amount * Centi
          /\ amount * Centi < (emi + 1) * tenure
          /\ dti = FixedDiv(amount * 100, tenure * income, Centi)
          /\ lti * income <= amount * Centi
          /\ amount * Centi < (lti + 1) * income
          /\ \A rate \in Rates :
                LET other == prepare_features_for_prediction(store,
                                 [call.request EXCEPT !.interest_rate = rate]).frame
                IN  /\ Cell(other, "estimated_emi") = emi
                    /\ Cell(other, "debt_to_income_ratio") = dti
                    /\ Cell(other, "loan_to_income_ratio") = lti
          /\ (income = 80000 /\ amount = 1000000 /\ tenure = 60) =>
                /\ dti = 2083
                /\ lti = 1250
                /\ dti < 50 * Centi
                /\ lti < 36 * Centi

\* the example of the statement, at an interest rate other than 10
C19_Witness ==
    /\ BuiltForValid
    /\ store.employments[call.request.customer_id].monthly_income = 80000
    /\ call.request.loan_amount = 1000000
    /\ call.request.loan_tenure_months = 60
    /\ call.request.interest_rate = 14
    /\ Cell(features, "debt_to_income_ratio") = 2083

\* age <= y years for a customer born d days ago: d / 365.25 <= y
DaysAtMostYears(d, y) == 4 * d <= 1461 * y

\* C20: age_group_encoded is 0 for age <= 25, 1 for 25 < age <= 35, 2 for
\* 35 < age <= 45, 3 for 45 < age <= 55, 4 for age > 55; experience_encoded is
\* 0 for years <= 2, 1 for 2 < years <= 5, 2 for 5 < years <= 10, 3 for
\* years > 10; every value gets exactly one band, a bound belongs to the lower
\* band, and an older or more experienced customer never gets a lower band.
C20_OrdinalBands ==
    BuilderReturned =>
      LET cid == call.request.customer_id
          d == store.customers[cid].age_days
          x == store.employments[cid].years_of_experience
          g == Cell(features, "age_group_encoded")
          e == Cell(features, "experience_encoded")
      IN  /\ g \in 0..4
          /\ g = 0 <=> DaysAtMostYears(d, 25)
          /\ g = 1 <=> (~DaysAtMostYears(d, 25) /\ DaysAtMostYears(d, 35))
          /\ g = 2 <=> (~DaysAtMostYears(d, 35) /\ DaysAtMostYears(d, 45))
          /\ g = 3 <=> (~DaysAtMostYears(d, 45) /\ DaysAtMostYears(d, 55))
          /\ g = 4 <=> ~DaysAtMostYears(d, 55)
          /\ e \in 0..3
          /\ e = 0 <=> x <= 20
          /\ e = 1 <=> (20 < x /\ x <= 50)
          /\ e = 2 <=> (50 < x /\ x <= 100)
          /\ e = 3 <=> 100 < x
          /\ \A c \in DOMAIN store.customers \cap DOMAIN store.employments :
                /\ store.customers[c].age_days <= d
                      => AgeGroup(store.customers[c].age_days) <= g
                /\ store.employments[c].years_of_experience <= x
                      => ExperienceGroup(store.employments[c].years_of_experience) <= e

\* a customer with exactly 5 years of experience, in the band below
C20_Witness ==
    /\ BuilderReturned
    /\ store.employments[call.request.customer_id].years_of_experience = 50
    /\ Cell(features, "experience_encoded") = 1

\* the last day of the lowest age band and the first day of the highest
C20_WitnessAge ==
    /\ BuilderReturned
    /\ \/ /\ store.customers[call.request.customer_id].age_days = 9131
          /\ Cell(features, "age_group_encoded") = 0
       \/ /\ store.customers[call.request.customer_id].age_days = 20089
          /\ Cell(features, "age_group_encoded") = 4

StateColumns == {"state_Gujarat", "state_Maharashtra", "state_Punjab", "state_Telangana",
                 "state_Other"}

PurposeColumns == {"purpose_" \o pp : pp \in Purposes}

EmploymentColumns == {"employment_Self-Employed", "employment_Salaried"}

\* the columns of the set whose cell is 1, the others being 0
Hot(df, columns) == {c \in columns : Cell(df, c) = 1}

ZeroOrOne(df, columns) == \A c \in columns : HasColumn(df, c) /\ Cell(df, c) \in {0, 1}

\* C21: exactly one state column is 1, state_Other iff the customer's state is
\* outside the fixed set; for each of the eight purposes exactly one purpose
\* column is 1, the one named after it; at most one employment column is 1.
C21_OneHotColumns ==
    BuilderReturned =>
      LET state == store.customers[call.request.customer_id].state
          purpose == call.request.loan_purpose
      IN  /\ ZeroOrOne(features, StateColumns)
          /\ Cardinality(Hot(features, StateColumns)) = 1
          /\ Cell(features, "state_Other") = 1 <=> state \notin FixedStates
          /\ state \in FixedStates => Hot(features, StateColumns) = {"state_" \o state}
          /\ ZeroOrOne(features, PurposeColumns)
          /\ purpose \in Purposes => Hot(features, PurposeColumns) = {"purpose_" \o purpose}
          /\ ZeroOrOne(features, EmploymentColumns)
          /\ Cardinality(Hot(features, EmploymentColumns)) <= 1

\* a customer of a state outside the fixed set, neither salaried nor
\* self-employed
C21_Witness ==
    /\ BuilderReturned
    /\ store.customers[call.request.customer_id].state \notin FixedStates
    /\ Cell(features, "state_Other") = 1
    /\ call.request.loan_purpose \in Purposes

\* a customer of a fixed-set state whose employment type has no column
C21_WitnessTelangana ==
    /\ BuilderReturned
    /\ store.customers[call.request.customer_id].state = "Telangana"
    /\ Hot(features, StateColumns) = {"state_Telangana"}
    /\ Hot(features, EmploymentColumns) = {}
    /\ call.request.loan_purpose = "Home Renovation"

\* load_model reads the disk exactly when nothing is cached; what is cached is
\* what every call uses
C22_State ==
    /\ load_model(MODEL_DATA, disk).read <=> ~MODEL_DATA.loaded
    /\ MODEL_DATA.loaded =>
          /\ load_model(MODEL_DATA, disk).outcome = OkOutcome
          /\ load_model(MODEL_DATA, disk).model_data = MODEL_DATA
    /\ Scored =>
          /\ aligned.columns = MODEL_DATA.feature_names
          /\ call.p = PredictProba(MODEL_DATA, aligned)
    /\ BatchReturned =>
          \A i \in 1..Len(batch) :
             results[i] = BatchItem(MODEL_DATA, MissingFile, store, HAS_SHAP, shapLib,
                                    batch[i]).entry

\* a cached artifact is never replaced, and the first one cached is the file's
C22_Step ==
    /\ MODEL_DATA.loaded => MODEL_DATA' = MODEL_DATA
    /\ (~MODEL_DATA.loaded /\ MODEL_DATA'.loaded) => MODEL_DATA' = disk.content

\* C22: the artifact is loaded lazily and cached for the process lifetime:
\* load_model reads the disk only when none is cached, and after one
\* successful load every later load_model, predict_credit_risk and
\* batch_predict uses that artifact, without reading the disk again and
\* without replacing it.
C22_LazyCachedArtifact == [](C22_State) /\ [][C22_Step]_vars

\* a scoring by the cached artifact while the file holds another one
C22_Witness ==
    /\ Scored
    /\ MODEL_DATA = ArtifactA
    /\ disk.present
    /\ disk.content = ArtifactB
    /\ call.p = PredictProba(ArtifactA, aligned)
    /\ call.p # PredictProba(ArtifactB, align_features_with_model(features, LegacyColumns))

\* a batch returned by the cached artifact after the file was removed
C22_WitnessBatch ==
    /\ BatchReturned
    /\ Len(results) = 2
    /\ MODEL_DATA.loaded
    /\ ~disk.present

\* the step is a scoring call (the file is not being written)
ScoreCallStep == /\ call'.op \in {"predict_credit_risk", "batch_predict"}
                 /\ disk' = disk

\* C23: once loading the artifact has failed, every later score call in the
\* process fails with the artifact-unavailable error; no later request
\* recovers by attempting the load again.
C23_LoadFailureIsFatal ==
    [][(call.outcome = FileNotFound /\ ScoreCallStep) => call'.outcome = FileNotFound]_vars

ScoringCall == call.op \in {"predict_credit_risk", "batch_predict"}

BuilderOutcomes == {OkOutcome, CustomerNotFound, EmploymentNotFound, DivisionByZero}

\* the sessions that are not released
Unreleased(d) == {i \in 1..Len(d.sessions) : d.sessions[i].state # "closed"}

\* C24: every call of prepare_features_for_prediction acquires one session
\* and releases it before it returns or raises, on every path, so after any
\* sequence of scoring calls no session the builder acquired is still held.
C24_BuilderReleasesSession ==
    /\ ScoringCall =>
          /\ db.registry = NoSession
          /\ Unreleased(db) = {}
          /\ \A i \in 1..Len(db.sessions) : db.sessions[i].owner = "builder"
    /\ (call.op = "predict_credit_risk" /\ call.outcome # FileNotFound) =>
          Len(db.sessions) = 1
    /\ BatchReturned =>
          Len(db.sessions) = Cardinality({i \in 1..Len(batch) : batch[i].missing = {}})
    /\ \A o \in BuilderOutcomes :
          LET h == get_db_session(NoDb, "handler").db
              after == prepare_features_sessions(h, o)
          IN  /\ after.registry = NoSession
              /\ Unreleased(after) = {}
              /\ Len(after.sessions) = 1

\* the builder raised, and its session is released
C24_Witness ==
    /\ call.op = "predict_credit_risk"
    /\ call.outcome \in {CustomerNotFound, EmploymentNotFound, DivisionByZero}
    /\ Len(db.sessions) = 1
    /\ db.sessions[1].state = "closed"
    /\ db.registry = NoSession

\* the builder returned a frame, and its session is released
C24_WitnessSuccess ==
    /\ Scored
    /\ call.op = "predict_credit_risk"
    /\ db.sessions = << [state |-> "closed", owner |-> "builder"] >>

SubmitReturned == call.op = "submit_application"

\* C29: in submit_application the session acquired at entry stays the
\* thread's registered session for the whole request: the nested scoring call
\* does not release it, the Application is committed on a session that is
\* still registered, and the final close_db_session releases that session, so
\* no session used during the request is left unreleased.
C29_HandlerSessionStaysRegistered ==
    SubmitReturned =>
      /\ db.handler # NoSession
      /\ call.http = 201 => db.atCommit = db.handler
      /\ Len(db.sessions) = 1
      /\ Unreleased(db) = {}
      /\ db.registry = NoSession

Submitted == SubmitReturned /\ call.http = 201

\* C25: the risk label every downstream consumer shows or uses (the
\* application status of the submission workflow, the Low/Medium/High label
\* the application page shows beside the risk probability) equals the
\* risk_level the core assigned; no consumer derives a different tier from
\* the returned probability.
C25_SingleSourceOfTruth ==
    Submitted =>
      /\ call.status = ApplicationStatus(result.risk_level)
      /\ applications[Len(applications)].application_status = call.status
      /\ DisplayedRiskLabel(result.risk_probability) = result.risk_level

\* C27: the reported risk_level agrees with the tier policy applied to the
\* reported risk_probability (4 decimals): Low iff it is < 0.30, Medium iff
\* 0.30 <= it < 0.50, High iff it is >= 0.50.
C27_TierOfReportedProbability ==
    Scored =>
      /\ result.risk_level = "Low" <=> 10 * result.risk_probability < 3 * (PUnit \div 10)
      /\ result.risk_level = "Medium" <=>
            /\ 3 * (PUnit \div 10) <= 10 * result.risk_probability
            /\ 10 * result.risk_probability < 5 * (PUnit \div 10)
      /\ result.risk_level = "High" <=> 10 * result.risk_probability >= 5 * (PUnit \div 10)

\* a step in which the scoring core is called directly
CoreStep == /\ call.op = "none"
            /\ call'.op \in {"predict_credit_risk", "batch_predict"}

\* C26: the scoring core only reads the customer store: whatever calls of
\* predict_credit_risk and batch_predict are made, succeeding or failing, the
\* customer and employment records stay as they were, and no call of the core
\* adds or changes a stored application record.
C26_CoreReadsOnly ==
    /\ [](store = InitialStore)
    /\ [][CoreStep => (store' = store /\ applications' = applications)]_vars

C26_Witness ==
    /\ call.op = "predict_credit_risk"
    /\ call.outcome = OkOutcome
    /\ Len(applications) = 1

C26_WitnessFailing ==
    /\ call.op \in {"predict_credit_risk", "batch_predict"}
    /\ call.outcome # OkOutcome
    /\ Len(applications) = 1

\* C28: whatever the interleaving of the threads that call load_model while
\* no artifact is cached, joblib.load makes at most one object from the file,
\* and every call that returns, at the same time or later, returns that
\* same object.
C28_LoadOnceUnderConcurrency ==
    /\ loading.made <= 1
    /\ \A t, u \in Threads :
          (loading.got[t] # NoObject /\ loading.got[u] # NoObject)
             => loading.got[t] = loading.got[u]

\* a step in which the handler serves one submission
SubmitStep == /\ call.op = "none"
              /\ call'.op = "submit_application"

\* C30: submit_application persists an Application only after a successful
\* prediction. A body that lacks a required field gets 400 and the prediction
\* is not called (nothing is loaded, built or returned); a prediction that
\* raises gets 500 after a rollback of the handler's session; in both cases
\* the application rows are what they were. A prediction that returns gets
\* 201 and exactly one new committed row, which carries the prediction's
\* credit_score, risk_probability and recommendation.
C30_PersistOnlyAfterPrediction ==
    [][SubmitStep =>
         /\ call'.http \in {201, 400, 500}
         /\ (call'.http = 400) <=> (call'.outcome = MissingFields)
         /\ (call'.http = 201) <=> (call'.outcome = OkOutcome)
         /\ call'.http = 400 =>
              /\ applications' = applications
              /\ MODEL_DATA' = MODEL_DATA
              /\ features' = EmptyFrame
              /\ result' = NoResult
         /\ call'.http = 500 =>
              /\ applications' = applications
              /\ call'.outcome \in {CustomerNotFound, EmploymentNotFound, DivisionByZero,
                                    FileNotFound}
              /\ result' = NoResult
              /\ db'.sessions[db'.handler].state # "active"
         /\ call'.http = 201 =>
              /\ Len(applications') = Len(applications) + 1
              /\ SubSeq(applications', 1, Len(applications)) = applications
              /\ LET app == applications'[Len(applications')] IN
                   /\ app.customer_id = call'.request.customer_id
                   /\ app.credit_score = result'.credit_score
                   /\ app.risk_probability = result'.risk_probability
                   /\ app.remarks = result'.recommendation
                   /\ result'.recommendation = Recommendation(call'.p)
    ]_vars

\* a prediction returned and its row is the one committed row
C30_Witness ==
    /\ Submitted
    /\ Len(applications) = 1
    /\ applications[1].credit_score = result.credit_score
    /\ applications[1].remarks = result.recommendation

\* a body that lacks a required field was refused
C30_WitnessMissingField ==
    /\ SubmitReturned
    /\ call.http = 400
    /\ applications = <<>>

\* the prediction raised for an unknown customer
C30_WitnessPredictionRaised ==
    /\ SubmitReturned
    /\ call.http = 500
    /\ call.outcome = CustomerNotFound
    /\ applications = <<>>

====
